---- MODULE Spec2Model ----
(***************************************************************************)
(* Model of fend's unit algebra (core/src/num/unit.rs) and of its          *)
(* recursive-descent parser (core/src/parser.rs).                          *)
(*                                                                         *)
(* Spec      : two quantities are drawn, then one UnitValue operation is   *)
(*             applied to them and its outcome recorded.                   *)
(* Parse*Spec: a token sequence is drawn, then the parse function of the   *)
(*             specification is applied to it and its outcome recorded.    *)
(***************************************************************************)
EXTENDS Integers, Sequences, FiniteSets, TLC

VARIABLES op, lhs, rhs, result, tokens, fn, parsed

vars == <<op, lhs, rhs, result, tokens, fn, parsed>>

(***************************************************************************)
(* Bounds of the model.                                                    *)
(***************************************************************************)
\* Total number of unit-product entries of the two operands together.
MaxEntries == 2
\* Largest exponent / root degree handed to the numeric kernel by pow, root_n.
MaxExponent == 2
\* Longest token sequence handed to the parser.
MaxTokens == 5
\* Most binary operators in an operator chain handed to the parser.
MaxOperators == 3

(***************************************************************************)
(* ExactBase, the exact numeric kernel (core/src/num/exact_base.rs, not    *)
(* among the sources): modelled as normalised rationals <<num, den>>,      *)
(* den > 0, gcd(num, den) = 1.  Fallible kernel operations return          *)
(* [tag |-> "Ok", val |-> r] or [tag |-> "Err", msg |-> ...].              *)
(***************************************************************************)
Abs(x) == IF x < 0 THEN -x ELSE x

RECURSIVE Gcd(_, _)
Gcd(x, y) == IF y = 0 THEN x ELSE Gcd(y, x % y)

Normalise(n, d) ==
    LET s == IF d < 0 THEN -1 ELSE 1
        c == Gcd(Abs(n), Abs(d))
    IN  <<(s * n) \div c, (s * d) \div c>>

FromInt(i) == <<i, 1>>

\* Sums and products cancel common factors before they multiply, so that
\* the machine integers of the model are not exceeded by intermediate values.
ExactAdd(x, y) ==
    LET c == Gcd(x[2], y[2])
    IN  Normalise(x[1] * (y[2] \div c) + y[1] * (x[2] \div c), x[2] * (y[2] \div c))

ExactNeg(x) == <<-x[1], x[2]>>

ExactSub(x, y) == ExactAdd(x, ExactNeg(y))

ExactMul(x, y) ==
    LET c == Gcd(Abs(x[1]), y[2])
        d == Gcd(Abs(y[1]), x[2])
    IN  Normalise((x[1] \div c) * (y[1] \div d), (x[2] \div d) * (y[2] \div c))

\* 1 / x for x # 0.
Reciprocal(x) == IF x[1] < 0 THEN <<-x[2], -x[1]>> ELSE <<x[2], x[1]>>

KOk(r) == [tag |-> "Ok", val |-> r]

KErr(m) == [tag |-> "Err", msg |-> m]

\* ExactBase::div : fails if the divisor is exactly zero.
ExactDiv(x, y) ==
    IF y[1] = 0 THEN KErr("Attempt to divide by zero")
    ELSE KOk(ExactMul(x, Reciprocal(y)))

RECURSIVE IntPow(_, _)
IntPow(b, e) == IF e = 0 THEN 1 ELSE b * IntPow(b, e - 1)

\* ExactBase::pow : exact for integer exponents; zero has no negative power
\* and no zeroth power; a non-integer exponent is a root, see ExactRootN.
ExactPowInt(x, e) ==
    IF e >= 0 THEN KOk(Normalise(IntPow(x[1], e), IntPow(x[2], e)))
    ELSE IF x[1] = 0 THEN KErr("Attempt to divide by zero")
    ELSE KOk(Normalise(IntPow(x[2], -e), IntPow(x[1], -e)))

\* The n-th root of a natural number, when it is a natural number.
HasIntRoot(x, n) == \E r \in 0..x : IntPow(r, n) = x

IntRoot(x, n) == CHOOSE r \in 0..x : IntPow(r, n) = x

\* ExactBase::root_n : the degree must be a positive integer and the root
\* must be representable.
ExactRootN(x, n) ==
    IF n[2] # 1 \/ n[1] <= 0 THEN KErr("Invalid root degree")
    ELSE IF x[1] < 0 THEN KErr("Root of a negative number")
    ELSE IF HasIntRoot(x[1], n[1]) /\ HasIntRoot(x[2], n[1])
         THEN KOk(<<IntRoot(x[1], n[1]), IntRoot(x[2], n[1])>>)
    ELSE KErr("Root is not exactly representable")

ExactPow(x, e) ==
    IF e[2] = 1
    THEN (IF x[1] = 0 /\ e[1] = 0 THEN KErr("Zero to the power of zero is undefined")
          ELSE ExactPowInt(x, e[1]))
    ELSE LET r == ExactRootN(x, <<e[2], 1>>)
         IN  IF r.tag = "Ok" THEN ExactPowInt(r.val, e[1]) ELSE r

(***************************************************************************)
(* Data model: BaseUnit, NamedUnit, UnitExponent, Unit, UnitValue.         *)
(* A HashMap<BaseUnit, ExactBase> is a function from the set of its keys;  *)
(* base units are identified by name.  Exponents are integers: an entry is *)
(* created with exponent 1 and exponents are only negated (div) or summed  *)
(* (into_hashmap_and_scale).                                               *)
(***************************************************************************)
EmptyMap == [b \in {} |-> 0]

NamedUnit(singular_name, plural_name, spacing, base_units, scale) ==
    [singular_name |-> singular_name, plural_name |-> plural_name,
     spacing |-> spacing, base_units |-> base_units, scale |-> scale]

UnitExponent(unit, exponent) == [unit |-> unit, exponent |-> exponent]

Unit(components) == [components |-> components]

unitless == Unit(<<>>)

UnitValue(value, unit_components) == [value |-> value, unit |-> Unit(unit_components)]

\* Result<UnitValue, String>, and the third outcome of a call: a panic
\* (an unwrap() of an Err), which aborts the caller instead of returning.
Ok(q) == [tag |-> "Ok", val |-> q]

Err(m) == [tag |-> "Err", msg |-> m]

Panic == [tag |-> "Panic"]

None == [tag |-> "None"]

(***************************************************************************)
(* Unit::into_hashmap_and_scale and Unit::try_convert.                     *)
(***************************************************************************)
\* The inner loop's iteration keeping an exponent that has become zero.
AccumulateBaseKeepZero(hashmap, base_unit, base_exp, overall_exp) ==
    IF base_unit \in DOMAIN hashmap
    THEN [hashmap EXCEPT ![base_unit] = hashmap[base_unit] + overall_exp * base_exp]
    ELSE [b \in DOMAIN hashmap \cup {base_unit} |->
             IF b = base_unit THEN overall_exp * base_exp ELSE hashmap[b]]

\* One iteration of the inner loop: the match on hashmap.get_mut(&base_unit).
AccumulateBase(hashmap, base_unit, base_exp, overall_exp) ==
    IF base_unit \in DOMAIN hashmap
    THEN LET new_exp == hashmap[base_unit] + overall_exp * base_exp
         IN  IF new_exp = 0
             THEN [b \in DOMAIN hashmap \ {base_unit} |-> hashmap[b]]
             ELSE [hashmap EXCEPT ![base_unit] = new_exp]
    ELSE LET new_exp == overall_exp * base_exp
         IN  IF new_exp # 0
             THEN [b \in DOMAIN hashmap \cup {base_unit} |->
                      IF b = base_unit THEN overall_exp * base_exp ELSE hashmap[b]]
             ELSE hashmap

\* The inner loop over named_unit_exp.unit.base_units.
RECURSIVE AccumulateBases(_, _, _, _)
AccumulateBases(hashmap, keys, base_units, overall_exp) ==
    IF keys = {} THEN hashmap
    ELSE LET k == CHOOSE x \in keys : TRUE
         IN  AccumulateBases(AccumulateBase(hashmap, k, base_units[k], overall_exp),
                             keys \ {k}, base_units, overall_exp)

\* The outer loop over self.components, from entry i on.  The unwrap() of
\* scale.pow(overall_exp) panics when the kernel returns an error.
RECURSIVE FlattenFrom(_, _, _, _)
FlattenFrom(components, i, hashmap, scale) ==
    IF i > Len(components) THEN [tag |-> "Ok", hashmap |-> hashmap, scale |-> scale]
    ELSE LET named_unit_exp == components[i]
             overall_exp == named_unit_exp.exponent
             h == AccumulateBases(hashmap, DOMAIN named_unit_exp.unit.base_units,
                                  named_unit_exp.unit.base_units, overall_exp)
             p == ExactPow(named_unit_exp.unit.scale, FromInt(overall_exp))
         IN  IF p.tag # "Ok" THEN Panic
             ELSE FlattenFrom(components, i + 1, h, ExactMul(scale, p.val))

into_hashmap_and_scale(unit) == FlattenFrom(unit.components, 1, EmptyMap, FromInt(1))

\* try_convert with the ratio the wrong way round: scale_b / scale_a.
try_convert_inverted(from, into) ==
    LET a == into_hashmap_and_scale(from)
        b == into_hashmap_and_scale(into)
    IN  IF a.tag = "Panic" \/ b.tag = "Panic" THEN Panic
        ELSE IF a.hashmap = b.hashmap
             THEN LET d == ExactDiv(b.scale, a.scale)
                  IN  IF d.tag = "Ok" THEN KOk(d.val) ELSE Panic
             ELSE Err("Units are incompatible")

\* try_convert comparing only which base units occur, not their exponents.
try_convert_keys_only(from, into) ==
    LET a == into_hashmap_and_scale(from)
        b == into_hashmap_and_scale(into)
    IN  IF a.tag = "Panic" \/ b.tag = "Panic" THEN Panic
        ELSE IF DOMAIN a.hashmap = DOMAIN b.hashmap
             THEN LET d == ExactDiv(a.scale, b.scale)
                  IN  IF d.tag = "Ok" THEN KOk(d.val) ELSE Panic
             ELSE Err("Units are incompatible")

\* Result<ExactBase, String>, or Panic.
try_convert(from, into) ==
    LET a == into_hashmap_and_scale(from)
        b == into_hashmap_and_scale(into)
    IN  IF a.tag = "Panic" \/ b.tag = "Panic" THEN Panic
        ELSE IF a.hashmap = b.hashmap
             THEN LET d == ExactDiv(a.scale, b.scale)
                  IN  IF d.tag = "Ok" THEN KOk(d.val) ELSE Panic
             ELSE Err("Units are incompatible")

(***************************************************************************)
(* UnitValue operations.                                                   *)
(***************************************************************************)
\* add without the scale factor applied to the right operand.
add_unscaled(self, other) ==
    LET scale_factor == try_convert(other.unit, self.unit)
    IN  IF scale_factor.tag # "Ok" THEN scale_factor
        ELSE Ok([value |-> ExactAdd(self.value, other.value), unit |-> self.unit])

add(self, other) ==
    LET scale_factor == try_convert(other.unit, self.unit)
    IN  IF scale_factor.tag # "Ok" THEN scale_factor
        ELSE Ok([value |-> ExactAdd(self.value, ExactMul(other.value, scale_factor.val)),
                 unit |-> self.unit])

\* convert_to without the check of the target's numeric value.
convert_to_unchecked(self, other) ==
    LET scale_factor == try_convert(self.unit, other.unit)
    IN  IF scale_factor.tag # "Ok" THEN scale_factor
        ELSE Ok([value |-> ExactMul(self.value, scale_factor.val), unit |-> other.unit])

convert_to(self, other) ==
    IF other.value # FromInt(1)
    THEN Err("Right-hand side of unit conversion has a numerical value")
    ELSE LET scale_factor == try_convert(self.unit, other.unit)
         IN  IF scale_factor.tag # "Ok" THEN scale_factor
             ELSE Ok([value |-> ExactMul(self.value, scale_factor.val),
                      unit |-> other.unit])

sub(self, other) ==
    LET scale_factor == try_convert(other.unit, self.unit)
    IN  IF scale_factor.tag # "Ok" THEN scale_factor
        ELSE Ok([value |-> ExactSub(self.value, ExactMul(other.value, scale_factor.val)),
                 unit |-> self.unit])

\* The loop of div pushing the entries of rhs with their exponents unchanged.
KeptComponents(components) ==
    [i \in 1..Len(components) |->
        UnitExponent(components[i].unit, components[i].exponent)]

\* The loop of div: every entry of rhs with its exponent negated.
NegatedComponents(components) ==
    [i \in 1..Len(components) |->
        UnitExponent(components[i].unit, -components[i].exponent)]

div(self, other) ==
    LET components == self.unit.components \o NegatedComponents(other.unit.components)
        v == ExactDiv(self.value, other.value)
    IN  IF v.tag # "Ok" THEN Err(v.msg)
        ELSE Ok([value |-> v.val, unit |-> Unit(components)])

\* is_unitless deciding on the flattened basis instead of the entry list.
is_dimensionless(self) ==
    LET flat == into_hashmap_and_scale(self.unit)
    IN  flat.tag = "Ok" /\ flat.hashmap = EmptyMap

is_unitless(self) == self.unit.components = <<>>

pow(self, other) ==
    IF ~is_unitless(self) \/ ~is_unitless(other)
    THEN Err("Exponents are currently only supported for unitless numbers.")
    ELSE LET v == ExactPow(self.value, other.value)
         IN  IF v.tag # "Ok" THEN Err(v.msg)
             ELSE Ok([value |-> v.val, unit |-> self.unit])

root_n(self, other) ==
    IF ~is_unitless(self) \/ ~is_unitless(other)
    THEN Err("Roots are currently only supported for unitless numbers.")
    ELSE LET v == ExactRootN(self.value, other.value)
         IN  IF v.tag # "Ok" THEN Err(v.msg)
             ELSE Ok([value |-> v.val, unit |-> self.unit])

mul(self, other) ==
    LET components == self.unit.components \o other.unit.components
    IN  [value |-> ExactMul(self.value, other.value), unit |-> Unit(components)]

\* impl From<u64> for UnitValue
from_int(i) == [value |-> FromInt(i), unit |-> unitless]

(***************************************************************************)
(* impl Display for UnitValue.  The formatter's output is the sequence of  *)
(* the pieces written to it, split at every space, name, `^`, `/` and      *)
(* number, so that two outputs are equal exactly when the written strings  *)
(* are.                                                                    *)
(***************************************************************************)
\* ExactBase::format(f, use_parentheses): the piece the kernel writes for x.
FormatExact(x, use_parentheses) == ToString(<<x, use_parentheses>>)

\* The first loop of fmt from entry i on writing a space before every entry.
RECURSIVE PositiveFromSpaced(_, _, _)
PositiveFromSpaced(components, i, first) ==
    IF i > Len(components) THEN <<>>
    ELSE LET unit_exponent == components[i]
         IN  IF unit_exponent.exponent < 0
             THEN PositiveFromSpaced(components, i + 1, first)
             ELSE <<" ">>
                  \o <<unit_exponent.unit.singular_name>>
                  \o (IF unit_exponent.exponent # 1
                      THEN <<"^", FormatExact(FromInt(unit_exponent.exponent), TRUE)>>
                      ELSE <<>>)
                  \o PositiveFromSpaced(components, i + 1, FALSE)

\* The first loop of fmt from entry i on: what it writes for the entries
\* whose exponent is not negative; `first` is the flag of the same name.
RECURSIVE PositiveFrom(_, _, _)
PositiveFrom(components, i, first) ==
    IF i > Len(components) THEN <<>>
    ELSE LET unit_exponent == components[i]
         IN  IF unit_exponent.exponent < 0
             THEN PositiveFrom(components, i + 1, first)
             ELSE (IF ~first \/ unit_exponent.unit.spacing = TRUE THEN <<" ">> ELSE <<>>)
                  \o <<unit_exponent.unit.singular_name>>
                  \o (IF unit_exponent.exponent # 1
                      THEN <<"^", FormatExact(FromInt(unit_exponent.exponent), TRUE)>>
                      ELSE <<>>)
                  \o PositiveFrom(components, i + 1, FALSE)

\* negative_components after the first loop.
NegativeComponents(components) ==
    SelectSeq(components, LAMBDA unit_exponent : unit_exponent.exponent < 0)

\* The second loop of fmt, over negative_components from entry i on.
RECURSIVE NegativeFrom(_, _)
NegativeFrom(negative_components, i) ==
    IF i > Len(negative_components) THEN <<>>
    ELSE LET unit_exponent == negative_components[i]
         IN  <<" ", unit_exponent.unit.singular_name>>
             \o (IF unit_exponent.exponent # -1
                 THEN <<"^", FormatExact(FromInt(-unit_exponent.exponent), TRUE)>>
                 ELSE <<>>)
             \o NegativeFrom(negative_components, i + 1)

fmt(self) ==
    LET use_parentheses == self.unit.components # <<>>
        negative_components == NegativeComponents(self.unit.components)
    IN  <<FormatExact(self.value, use_parentheses)>>
        \o (IF self.unit.components # <<>>
            THEN PositiveFrom(self.unit.components, 1, TRUE)
                 \o (IF negative_components # <<>>
                     THEN <<" ", "/">> \o NegativeFrom(negative_components, 1)
                     ELSE <<>>)
            ELSE <<>>)

(***************************************************************************)
(* Unit registration: new_base_unit, new_unit, and the registered units    *)
(* the model draws from.  new_unit takes the value its defining expression *)
(* evaluates to.                                                           *)
(***************************************************************************)
new_base_unit(singular_name, plural_name, space) ==
    LET hashmap == [b \in {singular_name} |-> 1]
        kg == NamedUnit(singular_name, plural_name, space, hashmap, FromInt(1))
    IN  UnitValue(FromInt(1), <<UnitExponent(kg, 1)>>)

new_unit(singular_name, plural_name, space, value) ==
    LET flat == into_hashmap_and_scale(value.unit)
        scale == ExactMul(flat.scale, value.value)
        resulting_unit == NamedUnit(singular_name, plural_name, space, flat.hashmap, scale)
    IN  UnitValue(FromInt(1), <<UnitExponent(resulting_unit, 1)>>)

\* ("percent", "percent", true, Some("0.01"))
unit_percent == new_unit("percent", "percent", TRUE, [value |-> <<1, 100>>, unit |-> unitless])

\* ("%", "%", false, Some("percent"))
unit_pct == new_unit("%", "%", FALSE, unit_percent)

\* ("m", "m", true, None)
unit_m == new_base_unit("m", "m", TRUE)

\* ("kg", "kg", true, None)
unit_kg == new_base_unit("kg", "kg", TRUE)

\* ("g", "g", true, Some("(1/1000)kg"))
unit_g == new_unit("g", "g", TRUE, mul([value |-> <<1, 1000>>, unit |-> unitless], unit_kg))

\* ("s", "s", true, None)
unit_s == new_base_unit("s", "s", TRUE)

\* ("N", "N", true, Some("1 kg m / s s"))
unit_N == new_unit("N", "N", TRUE,
                   div(mul(mul(from_int(1), unit_kg), unit_m), mul(unit_s, unit_s)).val)

\* A unit whose defining expression evaluates to zero, "0 kg": new_unit
\* accepts any expression and keeps no unit from having scale 0.
unit_nil == new_unit("nil", "nil", TRUE, mul(from_int(0), unit_kg))

NamedOf(unit_value) == unit_value.unit.components[1].unit

NamedUnits == {NamedOf(unit_pct), NamedOf(unit_m), NamedOf(unit_kg),
               NamedOf(unit_g), NamedOf(unit_N), NamedOf(unit_nil)}

(***************************************************************************)
(* Tokens (lexer::Token, lexer::Symbol) and expressions (ast::Expr).       *)
(* An expression is a tuple headed by its variant's name.                  *)
(***************************************************************************)
TokNum(n) == [kind |-> "Num", text |-> n]

TokIdent(name) == [kind |-> "Ident", text |-> name]

TokSymbol(sym) == [kind |-> "Symbol", text |-> sym]

OpenParens == "("

CloseParens == ")"

SymAdd == "+"

SymSub == "-"

SymMul == "*"

SymDiv == "/"

SymPow == "^"

ArrowConversion == "->"

Symbols == {OpenParens, CloseParens, SymAdd, SymSub, SymMul, SymDiv, SymPow, ArrowConversion}

ExprNum(n) == <<"Num", n>>

ExprIdent(name) == <<"Ident", name>>

Unary(variant, e) == <<variant, e>>

Binary(variant, a, b) == <<variant, a, b>>

IsNum(e) == e[1] = "Num"

IsApplyMul(e) == e[1] = "ApplyMul"

IsDiv(e) == e[1] = "Div"

IsUnaryMinus(e) == e[1] = "UnaryMinus"

\* ParseResult<T> = Result<(T, &[Token]), String>
POk(v, remaining) == [ok |-> TRUE, val |-> v, rest |-> remaining]

PErr(m) == [ok |-> FALSE, err |-> m]

(***************************************************************************)
(* The parser, one operator per function of parser.rs.                     *)
(***************************************************************************)
\* `let (x, input) = r?;` followed by K: an Err of r is returned as it is.
Try(r, K(_)) == IF r.ok THEN K(r) ELSE r

\* `if let Ok((x, remaining)) = r { K } else { otherwise }`
IfOk(r, K(_), otherwise) == IF r.ok THEN K(r) ELSE otherwise

parse_token(input) ==
    IF input = <<>> THEN PErr("Expected a token")
    ELSE POk(input[1], Tail(input))

parse_fixed_symbol(input, symbol) ==
    Try(parse_token(input), LAMBDA t :
        IF t.val.kind = "Symbol"
        THEN (IF t.val.text = symbol THEN POk(<<>>, t.rest)
              ELSE PErr(<<"Found", t.val.text, "while expecting", symbol>>))
        ELSE PErr(<<"Found an invalid token while expecting", symbol>>))

parse_number(input) ==
    Try(parse_token(input), LAMBDA t :
        IF t.val.kind = "Num" THEN POk(ExprNum(t.val.text), t.rest)
        ELSE PErr("Expected a number"))

parse_ident(input) ==
    Try(parse_token(input), LAMBDA t :
        IF t.val.kind = "Ident" THEN POk(ExprIdent(t.val.text), t.rest)
        ELSE PErr("Expected an identifier"))

RECURSIVE parse_expression(_)
RECURSIVE parse_power(_)

parse_parens(input) ==
    Try(parse_fixed_symbol(input, OpenParens), LAMBDA open :
        Try(parse_expression(open.rest), LAMBDA inner :
            Try(parse_fixed_symbol(inner.rest, CloseParens), LAMBDA close :
                POk(Unary("Parens", inner.val), close.rest))))

parse_parens_or_literal(input) ==
    Try(parse_token(input), LAMBDA t :
        IF t.val.kind = "Num" THEN parse_number(input)
        ELSE IF t.val.kind = "Ident" THEN parse_ident(input)
        ELSE IF t.val = TokSymbol(OpenParens) THEN parse_parens(input)
        ELSE PErr("Expected a number, an identifier or an open parenthesis"))

\* The match of parse_apply with the implicit-multiplication arm tried first.
ApplyFoldMulFirst(res, term) ==
    IF IsNum(res) \/ IsApplyMul(res) THEN "ApplyMul"
    ELSE IF IsNum(term) THEN "ApplyFunctionCall"
    ELSE "Apply"

\* The match on (&res, &term) in parse_apply: "stop" for the two arms that
\* return, otherwise the variant of the new node.
ApplyFold(res, term) ==
    IF IsNum(res) /\ IsNum(term) THEN "stop"
    ELSE IF IsApplyMul(res) /\ IsNum(term) THEN "stop"
    ELSE IF IsNum(term) THEN "ApplyFunctionCall"
    ELSE IF IsNum(res) \/ IsApplyMul(res) THEN "ApplyMul"
    ELSE "Apply"

\* The loop of parse_apply.
RECURSIVE ApplyLoop(_, _)
ApplyLoop(res, input) ==
    IfOk(parse_parens_or_literal(input),
         LAMBDA t : IF ApplyFold(res, t.val) = "stop" THEN POk(res, input)
                    ELSE ApplyLoop(Binary(ApplyFold(res, t.val), res, t.val), t.rest),
         POk(res, input))

parse_apply(input) ==
    Try(parse_parens_or_literal(input), LAMBDA first : ApplyLoop(first.val, first.rest))

\* parse_power_cont parsing only an Apply term after the ^.
parse_power_cont_flat(input) ==
    IfOk(parse_fixed_symbol(input, SymPow),
         LAMBDA sym : parse_apply(sym.rest),
         PErr("Expected ^ or **"))

parse_power_cont(input) ==
    IfOk(parse_fixed_symbol(input, SymPow),
         LAMBDA sym : parse_power(sym.rest),
         PErr("Expected ^ or **"))

\* The last part of parse_power accepting input that starts with no term.
PowerOfApplyLenient(input) ==
    IfOk(parse_apply(input),
         LAMBDA a : IfOk(parse_power_cont(a.rest),
                         LAMBDA c : POk(Binary("Pow", a.val, c.val), c.rest),
                         POk(a.val, a.rest)),
         POk(ExprNum("0"), input))

\* The part of parse_power after the two unary-sign branches.
PowerOfApply(input) ==
    Try(parse_apply(input), LAMBDA a :
        IfOk(parse_power_cont(a.rest),
             LAMBDA c : POk(Binary("Pow", a.val, c.val), c.rest),
             POk(a.val, a.rest)))

\* A unary-sign branch of parse_power.
SignedPower(variant, remaining) ==
    Try(parse_power(remaining), LAMBDA r : POk(Unary(variant, r.val), r.rest))

parse_power(input) ==
    IfOk(parse_fixed_symbol(input, SymSub),
         LAMBDA minus : SignedPower("UnaryMinus", minus.rest),
         IfOk(parse_fixed_symbol(input, SymAdd),
              LAMBDA plus : SignedPower("UnaryPlus", plus.rest),
              PowerOfApply(input)))

parse_multiplication_cont(input) ==
    Try(parse_fixed_symbol(input, SymMul), LAMBDA sym : parse_power(sym.rest))

parse_division_cont(input) ==
    Try(parse_fixed_symbol(input, SymDiv), LAMBDA sym : parse_power(sym.rest))

\* The loop of parse_multiplicative.
RECURSIVE MultiplicativeLoop(_, _)
MultiplicativeLoop(res, input) ==
    IfOk(parse_multiplication_cont(input),
         LAMBDA m : MultiplicativeLoop(Binary("Mul", res, m.val), m.rest),
         IfOk(parse_division_cont(input),
              LAMBDA d : MultiplicativeLoop(Binary("Div", res, d.val), d.rest),
              POk(res, input)))

parse_multiplicative(input) ==
    Try(parse_power(input), LAMBDA first : MultiplicativeLoop(first.val, first.rest))

\* The match on (&res, &rhs) in parse_compound_fraction: the variant of the
\* combined node, or "none" when no arm returns.
CompoundShape(first, second) ==
    IF IsNum(first) /\ IsDiv(second)
    THEN (IF IsNum(second[2]) /\ IsNum(second[3]) THEN "Add" ELSE "none")
    ELSE IF IsUnaryMinus(first) /\ IsDiv(second)
    THEN (IF IsNum(first[2]) /\ IsNum(second[2]) /\ IsNum(second[3]) THEN "Sub" ELSE "none")
    ELSE IF IsApplyMul(first) /\ IsApplyMul(second) THEN "Add"
    ELSE "none"

\* parse_compound_fraction keeping the position after a rejected second term.
parse_compound_fraction_greedy(input) ==
    Try(parse_multiplicative(input), LAMBDA first :
        IfOk(parse_multiplicative(first.rest),
             LAMBDA second :
                IF CompoundShape(first.val, second.val) # "none"
                THEN POk(Binary(CompoundShape(first.val, second.val),
                                first.val, second.val), second.rest)
                ELSE POk(first.val, second.rest),
             POk(first.val, first.rest)))

parse_compound_fraction(input) ==
    Try(parse_multiplicative(input), LAMBDA first :
        IfOk(parse_multiplicative(first.rest),
             LAMBDA second :
                IF CompoundShape(first.val, second.val) # "none"
                THEN POk(Binary(CompoundShape(first.val, second.val),
                                first.val, second.val), second.rest)
                ELSE POk(first.val, first.rest),
             POk(first.val, first.rest)))

parse_addition_cont(input) ==
    Try(parse_fixed_symbol(input, SymAdd), LAMBDA sym : parse_compound_fraction(sym.rest))

parse_subtraction_cont(input) ==
    Try(parse_fixed_symbol(input, SymSub), LAMBDA sym : parse_compound_fraction(sym.rest))

\* The loop of parse_additive.
RECURSIVE AdditiveLoop(_, _)
AdditiveLoop(res, input) ==
    IfOk(parse_addition_cont(input),
         LAMBDA a : AdditiveLoop(Binary("Add", res, a.val), a.rest),
         IfOk(parse_subtraction_cont(input),
              LAMBDA d : AdditiveLoop(Binary("Sub", res, d.val), d.rest),
              POk(res, input)))

parse_additive(input) ==
    Try(parse_compound_fraction(input), LAMBDA first : AdditiveLoop(first.val, first.rest))

\* parse_arrow_conversion_cont parsing a whole conversion after the arrow.
parse_arrow_conversion_cont_right(input) ==
    Try(parse_fixed_symbol(input, ArrowConversion), LAMBDA sym : parse_expression(sym.rest))

parse_arrow_conversion_cont(input) ==
    Try(parse_fixed_symbol(input, ArrowConversion), LAMBDA sym : parse_additive(sym.rest))

\* The loop of parse_arrow_conversion.
RECURSIVE ArrowLoop(_, _)
ArrowLoop(res, input) ==
    IfOk(parse_arrow_conversion_cont(input),
         LAMBDA c : ArrowLoop(Binary("As", res, c.val), c.rest),
         POk(res, input))

parse_arrow_conversion(input) ==
    Try(parse_additive(input), LAMBDA first : ArrowLoop(first.val, first.rest))

parse_expression(input) == parse_arrow_conversion(input)

\* The tail of parse_string without the check that no input remains.
StringResultPartial(r) ==
    IF ~r.ok THEN [ok |-> FALSE, err |-> r.err]
    ELSE [ok |-> TRUE, val |-> r.val]

\* The tail of parse_string: an error is passed on, and input that remains
\* is an error.
StringResult(r) ==
    IF ~r.ok THEN [ok |-> FALSE, err |-> r.err]
    ELSE IF r.rest # <<>> THEN [ok |-> FALSE, err |-> "Unexpected input found"]
    ELSE [ok |-> TRUE, val |-> r.val]

\* parse_string, from the tokens the lexer returned: Result<Expr, String>.
parse_string(input) == StringResult(parse_expression(input))

(***************************************************************************)
(* Inputs.                                                                 *)
(***************************************************************************)
Values == {FromInt(0), FromInt(1), FromInt(12)}

Entries == {UnitExponent(u, e) : u \in NamedUnits, e \in {1, -1}}

ComponentsOfLen(n) == [1..n -> Entries]

QuantitiesOfLen(n) == {[value |-> v, unit |-> Unit(c)] : v \in Values, c \in ComponentsOfLen(n)}

NoTokens == <<>>

\* One numeric literal, one identifier and every symbol.
Alphabet == {TokNum("1"), TokIdent("a")} \cup {TokSymbol(s) : s \in Symbols}

TokenSeqsOfLen(n) == [1..n -> Alphabet]

\* The binary operators of the Conversion, Additive and Multiplicative levels.
ChainOps == {ArrowConversion, SymAdd, SymSub, SymMul, SymDiv}

\* Operator chains: k + 1 atoms with k binary operators between them.
ChainsOfLen(k) ==
    {[i \in 1..(2 * k + 1) |->
          IF i % 2 = 1 THEN atoms[(i + 1) \div 2] ELSE TokSymbol(ops[i \div 2])] :
        atoms \in [1..(k + 1) -> {TokNum("1"), TokIdent("a")}], ops \in [1..k -> ChainOps]}

NoQuantity == [value |-> <<0, 1>>, unit |-> [components |-> <<>>]]

(***************************************************************************)
(* Spec: the unit algebra.                                                 *)
(***************************************************************************)
Init ==
    /\ op = "none"
    /\ result = None
    /\ \E n \in 0..MaxEntries, k \in 0..MaxEntries :
          /\ n + k <= MaxEntries
          /\ lhs \in QuantitiesOfLen(n)
          /\ rhs \in QuantitiesOfLen(k)
    /\ tokens = NoTokens
    /\ fn = "none"
    /\ parsed = None

Apply(name, outcome) ==
    /\ op = "none"
    /\ op' = name
    /\ result' = outcome
    /\ UNCHANGED <<lhs, rhs, tokens, fn, parsed>>

Add == Apply("add", add(lhs, rhs))

Sub == Apply("sub", sub(lhs, rhs))

ConvertTo == Apply("convert_to", convert_to(lhs, rhs))

Mul == Apply("mul", Ok(mul(lhs, rhs)))

Div == Apply("div", div(lhs, rhs))

\* to_string(): the output of Display::fmt, which writes without failing.
Display == Apply("display", Ok(fmt(lhs)))

\* Unit::into_hashmap_and_scale of the left operand's unit product.
Flatten == Apply("flatten", into_hashmap_and_scale(lhs.unit))

\* The kernel is only handed exponents and degrees up to MaxExponent.
InExponentRange(q) == q.value[2] = 1 /\ q.value[1] <= MaxExponent

Pow == InExponentRange(rhs) /\ Apply("pow", pow(lhs, rhs))

RootN == InExponentRange(rhs) /\ Apply("root_n", root_n(lhs, rhs))

Next == Add \/ Sub \/ ConvertTo \/ Mul \/ Div \/ Pow \/ RootN \/ Display \/ Flatten

Spec == Init /\ [][Next]_vars

(***************************************************************************)
(* The specifications of the parser.                                       *)
(***************************************************************************)
ParseInit ==
    /\ \E n \in 0..MaxTokens : tokens \in TokenSeqsOfLen(n)
    /\ fn = "none"
    /\ parsed = None
    /\ op = "none"
    /\ result = None
    /\ lhs = NoQuantity
    /\ rhs = NoQuantity

Run(name, outcome) ==
    /\ fn = "none"
    /\ fn' = name
    /\ parsed' = outcome
    /\ UNCHANGED <<tokens, op, lhs, rhs, result>>

ParseString == Run("parse_string", parse_string(tokens))

ParseCompoundFraction == Run("parse_compound_fraction", parse_compound_fraction(tokens))

ParsePower == Run("parse_power", parse_power(tokens))

ParseApply == Run("parse_apply", parse_apply(tokens))

ParseExpression == Run("parse_expression", parse_expression(tokens))

\* One specification per parse function: the function applied to every
\* token sequence of ParseInit.
ParseStringSpec == ParseInit /\ [][ParseString]_vars

ParseCompoundFractionSpec == ParseInit /\ [][ParseCompoundFraction]_vars

ParsePowerSpec == ParseInit /\ [][ParsePower]_vars

\* Operator chains, longer than the sequences of ParseInit.
ChainInit ==
    /\ \E k \in 0..MaxOperators : tokens \in ChainsOfLen(k)
    /\ fn = "none"
    /\ parsed = None
    /\ op = "none"
    /\ result = None
    /\ lhs = NoQuantity
    /\ rhs = NoQuantity

ChainSpec == ChainInit /\ [][ParseExpression]_vars

ParseApplySpec == ParseInit /\ [][ParseApply]_vars

ParseExpressionSpec == ParseInit /\ [][ParseExpression]_vars

(***************************************************************************)
(* What the claims about the unit algebra speak of, stated on the unit     *)
(* product itself rather than through into_hashmap_and_scale.              *)
(***************************************************************************)
BaseDims == UNION {DOMAIN u.base_units : u \in NamedUnits}

BaseExponent(named, d) == IF d \in DOMAIN named.base_units THEN named.base_units[d] ELSE 0

\* Exponent of base dimension d in a unit product: the sum over its entries.
RECURSIVE DimExponentFrom(_, _, _)
DimExponentFrom(components, i, d) ==
    IF i > Len(components) THEN 0
    ELSE components[i].exponent * BaseExponent(components[i].unit, d)
         + DimExponentFrom(components, i + 1, d)

DimExponent(unit, d) == DimExponentFrom(unit.components, 1, d)

SameBasis(u1, u2) == \A d \in BaseDims : DimExponent(u1, d) = DimExponent(u2, d)

\* Every entry's scale ^ exponent exists: no zero scale under a negative exponent.
ScaleDefined(unit) ==
    \A i \in 1..Len(unit.components) :
        ~(unit.components[i].unit.scale[1] = 0 /\ unit.components[i].exponent < 0)

EntryScale(entry) ==
    IF entry.exponent >= 0
    THEN <<IntPow(entry.unit.scale[1], entry.exponent), IntPow(entry.unit.scale[2], entry.exponent)>>
    ELSE Normalise(IntPow(entry.unit.scale[2], -entry.exponent),
                   IntPow(entry.unit.scale[1], -entry.exponent))

\* The flattened scale: the product over the entries of scale ^ exponent.
RECURSIVE ProductScaleFrom(_, _)
ProductScaleFrom(components, i) ==
    IF i > Len(components) THEN FromInt(1)
    ELSE ExactMul(EntryScale(components[i]), ProductScaleFrom(components, i + 1))

ProductScale(unit) == ProductScaleFrom(unit.components, 1)

\* x / y for y # 0.
Ratio(x, y) == ExactMul(x, Reciprocal(y))

Compatible == ScaleDefined(lhs.unit) /\ ScaleDefined(rhs.unit) /\ SameBasis(lhs.unit, rhs.unit)

OneKg == UnitValue(FromInt(1), <<UnitExponent(NamedOf(unit_kg), 1)>>)

TwelveG == UnitValue(FromInt(12), <<UnitExponent(NamedOf(unit_g), 1)>>)

OneM == UnitValue(FromInt(1), <<UnitExponent(NamedOf(unit_m), 1)>>)

OneNil == UnitValue(FromInt(1), <<UnitExponent(NamedOf(unit_nil), 1)>>)

C2_IncompatibleUnitsRejected ==
    (/\ op \in {"add", "sub", "convert_to"}
     /\ op = "convert_to" => rhs.value = FromInt(1)
     /\ ScaleDefined(lhs.unit) /\ ScaleDefined(rhs.unit)
     /\ ~SameBasis(lhs.unit, rhs.unit))
    => result = Err("Units are incompatible")

C2_Witness ==
    /\ op = "sub"
    /\ lhs = OneKg
    /\ rhs = UnitValue(FromInt(1), <<UnitExponent(NamedOf(unit_kg), -1)>>)
    /\ result.tag = "Err"

C4_MulDivConcatenate ==
    LET la == Len(lhs.unit.components)
        lb == Len(rhs.unit.components)
    IN  /\ op = "mul" =>
              /\ result.tag = "Ok"
              /\ Len(result.val.unit.components) = la + lb
              /\ \A i \in 1..la : result.val.unit.components[i] = lhs.unit.components[i]
              /\ \A j \in 1..lb : result.val.unit.components[la + j] = rhs.unit.components[j]
        /\ (op = "div" /\ rhs.value[1] # 0) =>
              /\ result.tag = "Ok"
              /\ Len(result.val.unit.components) = la + lb
              /\ \A i \in 1..la : result.val.unit.components[i] = lhs.unit.components[i]
              /\ \A j \in 1..lb :
                    /\ result.val.unit.components[la + j].unit = rhs.unit.components[j].unit
                    /\ result.val.unit.components[la + j].exponent
                          = 0 - rhs.unit.components[j].exponent
        /\ (op = "div" /\ rhs.value[1] = 0) => result.tag = "Err"

C4_Witness ==
    /\ op = "div" /\ lhs = OneM /\ rhs = OneM
    /\ result.tag = "Ok"
    /\ Len(result.val.unit.components) = 2
    /\ result.val.unit.components[2].exponent = -1

\* The unit product of div(1 m, 1 m): the two entries m^1 and m^-1.
MPerM == <<UnitExponent(NamedOf(unit_m), 1), UnitExponent(NamedOf(unit_m), -1)>>

C10_AddCommutesAfterConversion ==
    (/\ op = "add" /\ Compatible
     /\ ProductScale(lhs.unit)[1] # 0 /\ ProductScale(rhs.unit)[1] # 0)
    => LET swapped == add(rhs, lhs)
       IN  /\ result.tag = "Ok"
           /\ result.val.unit = lhs.unit
           /\ swapped.tag = "Ok"
           /\ swapped.val.unit = rhs.unit
           /\ LET back == convert_to(swapped.val, [value |-> FromInt(1), unit |-> lhs.unit])
              IN  /\ back.tag = "Ok"
                  /\ back.val.unit = lhs.unit
                  /\ back.val.value = result.val.value

C10_Witness ==
    /\ op = "add" /\ lhs = TwelveG /\ rhs = OneKg
    /\ result.tag = "Ok" /\ result.val.value = <<1012, 1>>
    /\ add(rhs, lhs).val.value = <<253, 250>>

\* What C13 says of the flattening `flat` of a unit product.
FlattenedAsSummed(unit, flat) ==
    /\ flat.tag = "Ok"
    /\ DOMAIN flat.hashmap \subseteq BaseDims
    /\ \A d \in DOMAIN flat.hashmap : flat.hashmap[d] # 0
    /\ \A d \in BaseDims :
          IF d \in DOMAIN flat.hashmap THEN flat.hashmap[d] = DimExponent(unit, d)
          ELSE DimExponent(unit, d) = 0
    /\ flat.scale = ProductScale(unit)

PerNil == UnitExponent(NamedOf(unit_nil), -1)

WrittenEntry(entry, lead) ==
    (IF lead THEN <<" ">> ELSE <<>>)
    \o <<entry.unit.singular_name>>
    \o (IF Abs(entry.exponent) # 1
        THEN <<"^", FormatExact(FromInt(Abs(entry.exponent)), TRUE)>>
        ELSE <<>>)

NoPositiveBefore(components, i) == \A j \in 1..(i - 1) : components[j].exponent < 0

\* Whether entry i abuts what precedes it: its spacing flag is false and it
\* is the first entry of the unit product (byPosition) or the first entry of
\* positive exponent (~byPosition).
Abuts(components, i, byPosition) ==
    /\ ~components[i].unit.spacing
    /\ IF byPosition THEN i = 1 ELSE NoPositiveBefore(components, i)

RECURSIVE ExpectedPositive(_, _, _)
ExpectedPositive(components, i, byPosition) ==
    IF i > Len(components) THEN <<>>
    ELSE (IF components[i].exponent > 0
          THEN WrittenEntry(components[i], ~Abuts(components, i, byPosition))
          ELSE <<>>)
         \o ExpectedPositive(components, i + 1, byPosition)

RECURSIVE ExpectedNegative(_, _)
ExpectedNegative(components, i) ==
    IF i > Len(components) THEN <<>>
    ELSE (IF components[i].exponent < 0 THEN WrittenEntry(components[i], TRUE) ELSE <<>>)
         \o ExpectedNegative(components, i + 1)

\* Everything the contract writes after the value.
ExpectedUnits(components, byPosition) ==
    ExpectedPositive(components, 1, byPosition)
    \o (IF \E i \in 1..Len(components) : components[i].exponent < 0
        THEN <<" ", "/">> \o ExpectedNegative(components, 1)
        ELSE <<>>)

PerM == UnitExponent(NamedOf(unit_m), -1)

Pct == UnitExponent(NamedOf(unit_pct), 1)

\* C11 as stated: Display writes, after the value, every positive-exponent
\* entry in original order, each preceded by a space unless it is the first
\* entry of the unit product and its spacing flag is false, with `^n` when
\* the exponent is not 1; then, iff some entry has a negative exponent, ` /`
\* followed by each negative-exponent entry in original order, its exponent
\* negated and `^1` omitted.
C11_DisplayFirstEntryAbuts ==
    op = "display" =>
        /\ result.tag = "Ok"
        /\ Len(result.val) >= 1
        /\ Tail(result.val) = ExpectedUnits(lhs.unit.components, TRUE)

\* C11 amended: as C11, but the entry that is written without a space is the
\* first entry of positive exponent when its spacing flag is false, whether
\* or not entries of negative exponent come before it in the unit product.
C11_DisplayFirstWrittenAbuts ==
    op = "display" =>
        /\ result.tag = "Ok"
        /\ Len(result.val) >= 1
        /\ Tail(result.val) = ExpectedUnits(lhs.unit.components, FALSE)
        /\ (\E i \in 1..(Len(result.val) - 1) :
                result.val[i] = " " /\ result.val[i + 1] = "/")
              <=> (\E i \in 1..Len(lhs.unit.components) :
                      lhs.unit.components[i].exponent < 0)

C11_Witness ==
    /\ op = "display"
    /\ lhs.unit.components = <<PerM, Pct>>
    /\ result.tag = "Ok"
    /\ Tail(result.val) = <<"%", " ", "/", " ", "m">>

(***************************************************************************)
(* Claims about the parser.                                                *)
(***************************************************************************)
Num1 == TokNum("1")

IdentA == TokIdent("a")

AtomTokens == {Num1, IdentA}

\* The expression an atom token parses to.
AtomExpr(t) == IF t.kind = "Num" THEN <<"Num", t.text>> ELSE <<"Ident", t.text>>

\* C7: parse_string returns an AST only when parse_expression consumed every
\* token: whenever parse_expression succeeds with a non-empty remaining
\* suffix (`1 + 1 )`, `1 1`, `1 +`), parse_string returns an error and never
\* the partial AST.
C7_ParseStringConsumesAll ==
    fn = "parse_string" =>
        LET r == parse_expression(tokens)
        IN  /\ parsed.ok => (r.ok /\ r.rest = <<>> /\ parsed.val = r.val)
            /\ (r.ok /\ r.rest # <<>>) => ~parsed.ok
            /\ (r.ok /\ r.rest = <<>>) => parsed.ok
            /\ tokens \in {<<Num1, TokSymbol("+"), Num1, TokSymbol(")")>>,
                           <<Num1, Num1>>,
                           <<Num1, TokSymbol("+")>>} => ~parsed.ok

C7_Witness ==
    /\ fn = "parse_string"
    /\ tokens = <<Num1, TokSymbol("+"), Num1, TokSymbol(")")>>
    /\ parse_expression(tokens).ok
    /\ parse_expression(tokens).rest = <<TokSymbol(")")>>
    /\ ~parsed.ok

\* C8: parse_power is right-associative and puts a leading unary sign outside
\* the whole power expression: for atoms a, b, c, `a ^ b ^ c` parses to
\* Pow(a, Pow(b, c)) and `- a ^ b` to UnaryMinus(Pow(a, b)), never to
\* Pow(UnaryMinus(a), b); likewise UnaryPlus for `+`.
C8_PowerRightAssociative ==
    fn = "parse_power" =>
        /\ \A x \in AtomTokens, y \in AtomTokens, z \in AtomTokens :
              tokens = <<x, TokSymbol("^"), y, TokSymbol("^"), z>> =>
                 parsed = [ok |-> TRUE, rest |-> <<>>,
                           val |-> <<"Pow", AtomExpr(x),
                                     <<"Pow", AtomExpr(y), AtomExpr(z)>>>>]
        /\ \A x \in AtomTokens, y \in AtomTokens :
              /\ tokens = <<TokSymbol("-"), x, TokSymbol("^"), y>> =>
                    parsed = [ok |-> TRUE, rest |-> <<>>,
                              val |-> <<"UnaryMinus", <<"Pow", AtomExpr(x), AtomExpr(y)>>>>]
              /\ tokens = <<TokSymbol("+"), x, TokSymbol("^"), y>> =>
                    parsed = [ok |-> TRUE, rest |-> <<>>,
                              val |-> <<"UnaryPlus", <<"Pow", AtomExpr(x), AtomExpr(y)>>>>]
        /\ (parsed.ok /\ parsed.val[1] = "Pow") =>
              parsed.val[2][1] \notin {"Pow", "UnaryMinus", "UnaryPlus"}

C8_Witness ==
    /\ fn = "parse_power"
    /\ tokens = <<Num1, TokSymbol("^"), IdentA, TokSymbol("^"), Num1>>
    /\ parsed.ok
    /\ parsed.val = <<"Pow", <<"Num", "1">>, <<"Pow", <<"Ident", "a">>, <<"Num", "1">>>>>>

IsFraction(e) == e[1] = "Div" /\ e[2][1] = "Num" /\ e[3][1] = "Num"

\* C9: parse_compound_fraction parses a first Multiplicative term A and
\* speculatively a second B, and combines them only in three shapes:
\* A = Num and B = Div(Num, Num) gives Add(A, B); A = UnaryMinus(Num) and
\* B = Div(Num, Num) gives Sub(A, B); A and B both ApplyMul give Add(A, B).
\* For every other pair of shapes, and when the second parse fails, it
\* returns A alone with the remaining input right after A.
C9_CompoundFractionShapes ==
    fn = "parse_compound_fraction" =>
        LET A == parse_multiplicative(tokens)
        IN  IF ~A.ok THEN ~parsed.ok
            ELSE LET B == parse_multiplicative(A.rest)
                     mixed == B.ok /\ A.val[1] = "Num" /\ IsFraction(B.val)
                     negative == /\ B.ok /\ A.val[1] = "UnaryMinus"
                                 /\ A.val[2][1] = "Num" /\ IsFraction(B.val)
                     units == B.ok /\ A.val[1] = "ApplyMul" /\ B.val[1] = "ApplyMul"
                 IN  /\ mixed => parsed = [ok |-> TRUE, rest |-> B.rest,
                                           val |-> <<"Add", A.val, B.val>>]
                     /\ negative => parsed = [ok |-> TRUE, rest |-> B.rest,
                                              val |-> <<"Sub", A.val, B.val>>]
                     /\ units => parsed = [ok |-> TRUE, rest |-> B.rest,
                                           val |-> <<"Add", A.val, B.val>>]
                     /\ ~(mixed \/ negative \/ units) =>
                           parsed = [ok |-> TRUE, rest |-> A.rest, val |-> A.val]

C9_Witness ==
    /\ fn = "parse_compound_fraction"
    /\ tokens = <<TokSymbol("-"), Num1, Num1, TokSymbol("/"), Num1>>
    /\ parsed.ok
    /\ parsed.rest = <<>>
    /\ parsed.val = <<"Sub", <<"UnaryMinus", <<"Num", "1">>>>,
                      <<"Div", <<"Num", "1">>, <<"Num", "1">>>>>>

(***************************************************************************)
(* The fold of parse_apply, stated as the table of its rules.              *)
(***************************************************************************)
\* The rules of the table that apply to the pair (built so far, next atom).
ApplyRules(res, term) ==
    {rule \in {"stop", "ApplyFunctionCall", "ApplyMul", "Apply"} :
        \/ rule = "stop" /\ res[1] \in {"Num", "ApplyMul"} /\ term[1] = "Num"
        \/ rule = "ApplyFunctionCall" /\ res[1] \notin {"Num", "ApplyMul"} /\ term[1] = "Num"
        \/ rule = "ApplyMul" /\ res[1] \in {"Num", "ApplyMul"} /\ term[1] # "Num"
        \/ rule = "Apply" /\ res[1] \notin {"Num", "ApplyMul"} /\ term[1] # "Num"}

\* The atoms at the head of input folded pairwise, left to right, by the one
\* rule that applies to each pair.
RECURSIVE ExpectedApply(_, _)
ExpectedApply(res, input) ==
    LET next == parse_parens_or_literal(input)
    IN  IF ~next.ok THEN POk(res, input)
        ELSE IF Cardinality(ApplyRules(res, next.val)) # 1 THEN PErr("no single rule")
        ELSE LET rule == CHOOSE x \in ApplyRules(res, next.val) : TRUE
             IN  IF rule = "stop" THEN POk(res, input)
                 ELSE ExpectedApply(<<rule, res, next.val>>, next.rest)

OpsAt(seq, ops) == {i \in 1..Len(seq) : seq[i].kind = "Symbol" /\ seq[i].text \in ops}

MaxOf(S) == CHOOSE x \in S : \A y \in S : y <= x

\* The operator a chain splits at: the last one of the loosest level present.
SplitAt(seq) ==
    IF OpsAt(seq, {ArrowConversion}) # {} THEN MaxOf(OpsAt(seq, {ArrowConversion}))
    ELSE IF OpsAt(seq, {SymAdd, SymSub}) # {} THEN MaxOf(OpsAt(seq, {SymAdd, SymSub}))
    ELSE MaxOf(OpsAt(seq, {SymMul, SymDiv}))

VariantOf(sym) ==
    CASE sym = ArrowConversion -> "As"
      [] sym = SymAdd -> "Add"
      [] sym = SymSub -> "Sub"
      [] sym = SymMul -> "Mul"
      [] sym = SymDiv -> "Div"

RECURSIVE ChainTree(_)
ChainTree(seq) ==
    IF Len(seq) = 1 THEN AtomExpr(seq[1])
    ELSE LET i == SplitAt(seq)
         IN  <<VariantOf(seq[i].text), ChainTree(SubSeq(seq, 1, i - 1)),
               ChainTree(SubSeq(seq, i + 1, Len(seq)))>>

\* C14: chains of binary operators at the Conversion, Additive and
\* Multiplicative levels are left-associative and respect the level order:
\* for atoms a, b, c, d, `a -> b -> c` parses to As(As(a, b), c),
\* `a * b / c * d` to Mul(Div(Mul(a, b), c), d), `a - b + c` to
\* Add(Sub(a, b), c) and `a * b + c` to Add(Mul(a, b), c).
C14_ChainsLeftAssociative ==
    fn = "parse_expression" =>
        /\ parsed = POk(ChainTree(tokens), <<>>)
        /\ \A a \in AtomTokens, b \in AtomTokens, c \in AtomTokens :
              /\ tokens = <<a, TokSymbol("->"), b, TokSymbol("->"), c>> =>
                    parsed.val = <<"As", <<"As", AtomExpr(a), AtomExpr(b)>>, AtomExpr(c)>>
              /\ tokens = <<a, TokSymbol("-"), b, TokSymbol("+"), c>> =>
                    parsed.val = <<"Add", <<"Sub", AtomExpr(a), AtomExpr(b)>>, AtomExpr(c)>>
              /\ tokens = <<a, TokSymbol("*"), b, TokSymbol("+"), c>> =>
                    parsed.val = <<"Add", <<"Mul", AtomExpr(a), AtomExpr(b)>>, AtomExpr(c)>>
              /\ \A d \in AtomTokens :
                    tokens = <<a, TokSymbol("*"), b, TokSymbol("/"), c, TokSymbol("*"), d>> =>
                       parsed.val = <<"Mul", <<"Div", <<"Mul", AtomExpr(a), AtomExpr(b)>>,
                                               AtomExpr(c)>>, AtomExpr(d)>>

C14_Witness ==
    /\ fn = "parse_expression"
    /\ tokens = <<IdentA, TokSymbol("*"), Num1, TokSymbol("/"), IdentA, TokSymbol("*"), Num1>>
    /\ parsed.ok
    /\ parsed.rest = <<>>
    /\ parsed.val = <<"Mul", <<"Div", <<"Mul", <<"Ident", "a">>, <<"Num", "1">>>>,
                               <<"Ident", "a">>>>, <<"Num", "1">>>>

(***************************************************************************)
(* Progress of the parser.                                                 *)
(***************************************************************************)
\* rest is what is left of input after at least one token was consumed.
IsProperSuffix(rest, input) ==
    /\ Len(rest) < Len(input)
    /\ rest = SubSeq(input, Len(input) - Len(rest) + 1, Len(input))

Consumes(r, input) == r.ok => IsProperSuffix(r.rest, input)

\* C15: for every finite token sequence, parse_expression terminates with an
\* error or with a pair (AST, remaining) in which remaining is a proper
\* suffix of the input.  Every recursive call is made on strictly shorter
\* input: a unary sign, an open parenthesis or a power sign is consumed
\* first, each exactly one token.  Every loop iteration is made on strictly
\* shorter input: the atom of parse_apply and the continuations of
\* parse_multiplicative, parse_additive and parse_arrow_conversion consume
\* at least one token whenever they succeed.
C15_ParseExpressionProgress ==
    fn = "parse_expression" =>
        /\ parsed.ok \/ parsed = PErr(parsed.err)
        /\ Consumes(parsed, tokens)
        /\ \A sym \in {SymSub, SymAdd, OpenParens, SymPow} :
              parse_fixed_symbol(tokens, sym).ok =>
                 /\ tokens # <<>>
                 /\ parse_fixed_symbol(tokens, sym).rest = Tail(tokens)
        /\ Consumes(parse_parens_or_literal(tokens), tokens)
        /\ Consumes(parse_power_cont(tokens), tokens)
        /\ Consumes(parse_multiplication_cont(tokens), tokens)
        /\ Consumes(parse_division_cont(tokens), tokens)
        /\ Consumes(parse_addition_cont(tokens), tokens)
        /\ Consumes(parse_subtraction_cont(tokens), tokens)
        /\ Consumes(parse_arrow_conversion_cont(tokens), tokens)

C15_Witness ==
    /\ fn = "parse_expression"
    /\ tokens = <<TokSymbol("-"), TokSymbol("("), Num1, TokSymbol(")"), TokSymbol(")")>>
    /\ parsed = POk(<<"UnaryMinus", <<"Parens", <<"Num", "1">>>>>>, <<TokSymbol(")")>>)

====
